---- MODULE Spec2Model ----
(***************************************************************************)
(* Sudoku::Solver<SIZE> (src/src/solver.h): the neighbour topology, read(), *)
(* updatePossibilities(), restrict(), assumeNumber(), solve() and          *)
(* isCorrect(), over the Cell contract of cell.h.                          *)
(***************************************************************************)
EXTENDS Integers, Sequences, FiniteSets, TLC

(* ------------------------------------------------------------------ *)
(* Sizes                                                               *)
(* ------------------------------------------------------------------ *)

\* template <size_t SIZE>: the box size the solver is instantiated with
SIZE == 2

\* static constexpr size_t NCOUNT = SIZE * SIZE
NCOUNT == SIZE * SIZE

\* largest box size for which the topology tables are built and examined
MaxSize == 3

\* a dense input differs from the solved base grid in at most MaxHoles cells
MaxHoles == 1

\* a sparse input has at most MaxGivens givens, in the first row or the first cell of the second
MaxGivens == 4

\* a clue input keeps at most MaxClues cells of the solved base grid, on one colour of the
\* checkerboard
MaxClues == 5

\* a malformed stream fails within its first or its last BadPrefix tokens
BadPrefix == 2

Cells == 0 .. (NCOUNT * NCOUNT - 1)
Digits == 1 .. NCOUNT
NbType == {"ROW", "COL", "BOX"}

(* ------------------------------------------------------------------ *)
(* Neighbour topology                                                  *)
(* ------------------------------------------------------------------ *)

\* size_t col(size_t i) const { return i % NCOUNT; }               (S = box size)
col(i, S) == i % (S * S)

\* size_t row(size_t i) const { return i / NCOUNT; }
row(i, S) == i \div (S * S)

\* size_t box(size_t i) const { return (i / NCOUNT) / SIZE * SIZE + (i % NCOUNT) / SIZE; }
box(i, S) == (((i \div (S * S)) \div S) * S) + ((i % (S * S)) \div S)

\* faulty variant of NeighborEntry: boxFirst steps by one column per box, not by SIZE
NeighborEntry_BoxStride(TYPE, S, i1, i2) ==
    LET boxFirst == (((i1 \div S) * S) * (S * S)) + (i1 % S)
    IN  CASE TYPE = "ROW" -> (i1 * (S * S)) + i2
          [] TYPE = "COL" -> (i2 * (S * S)) + i1
          [] OTHER        -> (boxFirst + ((i2 \div S) * (S * S))) + (i2 % S)

\* the body of the loops of initNeighbors<TYPE>(): the value stored in result[i1][i2]
NeighborEntry(TYPE, S, i1, i2) ==
    LET boxFirst == (((i1 \div S) * S) * (S * S)) + ((i1 % S) * S)
    IN  CASE TYPE = "ROW" -> (i1 * (S * S)) + i2
          [] TYPE = "COL" -> (i2 * (S * S)) + i1
          [] OTHER        -> (boxFirst + ((i2 \div S) * (S * S))) + (i2 % S)

\* initNeighbors<TYPE>() for box size S: the finished narray_t
initNeighbors(TYPE, S) ==
    [i1 \in 0 .. (S * S - 1) |-> [i2 \in 0 .. (S * S - 1) |-> NeighborEntry(TYPE, S, i1, i2)]]

\* static constexpr narray_t m_neighbors[] = { ROW, COL, BOX }
m_neighbors == [t \in NbType |-> initNeighbors(t, SIZE)]

\* the cells a range-for over one narray_t row visits
Members(nbs) == {nbs[k] : k \in DOMAIN nbs}

\* the cells each range-for over m_neighbors[TYPE][g] visits
GroupCells == [t \in NbType |-> [g \in 0 .. (NCOUNT - 1) |-> Members(m_neighbors[t][g])]]

(* ------------------------------------------------------------------ *)
(* Cell (cell.h): Empty with a candidate set, or Filled with a digit   *)
(* ------------------------------------------------------------------ *)

\* a default-constructed cell: Empty with every digit a candidate
EmptyCell == [number |-> 0, poss |-> Digits]

FilledCell(d) == [number |-> d, poss |-> {}]

isEmpty(c) == c.number = 0

number(c) == c.number

isPossible(c, n) == n \in c.poss

isOnlyOne(c) == isEmpty(c) /\ Cardinality(c.poss) = 1

isInconsistent(c) == isEmpty(c) /\ c.poss = {}

RECURSIVE Ascending(_)
Ascending(s) ==
    IF s = {} THEN << >>
    ELSE LET m == CHOOSE x \in s : \A y \in s : x <= y
         IN  <<m>> \o Ascending(s \ {m})

\* the candidates of a cell, in ascending digit order
possibilities(c) == Ascending(c.poss)

setNumber(c, n) == FilledCell(n)

\* no-op on a Filled cell
disable(c, n) == IF isEmpty(c) THEN [c EXCEPT !.poss = @ \ {n}] ELSE c

\* operator>>: token 0 is an Empty cell, 1..NCOUNT a given digit
TokenOk(t) == t \in 0 .. NCOUNT
ParseCell(t) == IF t = 0 THEN EmptyCell ELSE FilledCell(t)

(* ------------------------------------------------------------------ *)
(* Solver operations                                                   *)
(* ------------------------------------------------------------------ *)

\* for (const auto nbi: m_neighbors[TYPE][g]) m_cells[nbi].disable(number);
DisableGroup(cells, TYPE, g, n) ==
    [j \in Cells |-> IF j \in GroupCells[TYPE][g] THEN disable(cells[j], n) ELSE cells[j]]

\* faulty variant of updatePossibilities: the BOX loop is missing
updatePossibilities_NoBox(cells, index) ==
    LET n  == number(cells[index])
        c1 == DisableGroup(cells, "ROW", row(index, SIZE), n)
    IN  DisableGroup(c1, "COL", col(index, SIZE), n)

\* faulty variant of updatePossibilities: the COL loop takes the group of row(index)
updatePossibilities_ColOfRow(cells, index) ==
    LET n  == number(cells[index])
        c1 == DisableGroup(cells, "ROW", row(index, SIZE), n)
        c2 == DisableGroup(c1, "COL", row(index, SIZE), n)
    IN  DisableGroup(c2, "BOX", box(index, SIZE), n)

updatePossibilities(cells, index) ==
    LET n  == number(cells[index])
        c1 == DisableGroup(cells, "ROW", row(index, SIZE), n)
        c2 == DisableGroup(c1, "COL", col(index, SIZE), n)
    IN  DisableGroup(c2, "BOX", box(index, SIZE), n)

\* faulty variant of fn_check: some other cell of the group does not list the digit
fn_check_SomeOther(cells, n, ind, nbs) ==
    \E nbi \in nbs : nbi # ind /\ ~ (isEmpty(cells[nbi]) /\ isPossible(cells[nbi], n))

\* fn_check of restrict(): no other Empty cell of the group lists the digit
fn_check(cells, n, ind, nbs) ==
    ~ \E nbi \in nbs : nbi # ind /\ isEmpty(cells[nbi]) /\ isPossible(cells[nbi], n)

\* the condition of the if in restrict()'s inner loop
Deducible(cells, i, n) ==
    \/ isOnlyOne(cells[i])
    \/ fn_check(cells, n, i, GroupCells["ROW"][row(i, SIZE)])
    \/ fn_check(cells, n, i, GroupCells["COL"][col(i, SIZE)])
    \/ fn_check(cells, n, i, GroupCells["BOX"][box(i, SIZE)])

\* faulty variant of FirstDeducible: the first candidate is taken without the test
FirstDeducible_NoTest(cells, i, numbers) == IF numbers = << >> THEN 0 ELSE Head(numbers)

\* the inner loop of restrict(): the first digit of numbers that may be assigned, 0 if none
RECURSIVE FirstDeducible(_, _, _)
FirstDeducible(cells, i, numbers) ==
    IF numbers = << >> THEN 0
    ELSE IF Deducible(cells, i, Head(numbers)) THEN Head(numbers)
    ELSE FirstDeducible(cells, i, Tail(numbers))

\* the outer loop of restrict() from cell i on: the grid and the result flag at its end
RECURSIVE RestrictFrom(_, _, _)
RestrictFrom(cells, i, result) ==
    IF i >= NCOUNT * NCOUNT THEN [cells |-> cells, result |-> result]
    ELSE IF ~ isEmpty(cells[i]) THEN RestrictFrom(cells, i + 1, result)
    ELSE LET n == FirstDeducible(cells, i, possibilities(cells[i]))
         IN  IF n = 0 THEN RestrictFrom(cells, i + 1, result)
             ELSE RestrictFrom(
                      updatePossibilities([cells EXCEPT ![i] = setNumber(@, n)], i),
                      i + 1, TRUE)

\* the assignments the outer loop of restrict() makes from cell i on, in order: the grid
\* each one is made on, the cell and the digit
RECURSIVE RestrictTrace(_, _)
RestrictTrace(cells, i) ==
    IF i >= NCOUNT * NCOUNT THEN << >>
    ELSE IF ~ isEmpty(cells[i]) THEN RestrictTrace(cells, i + 1)
    ELSE LET n == FirstDeducible(cells, i, possibilities(cells[i]))
         IN  IF n = 0 THEN RestrictTrace(cells, i + 1)
             ELSE <<[before |-> cells, cell |-> i, digit |-> n]>> \o
                  RestrictTrace(
                      updatePossibilities([cells EXCEPT ![i] = setNumber(@, n)], i), i + 1)

\* faulty variant of restrict: result is never set
restrict_NeverProgress(cells) == [cells |-> RestrictFrom(cells, 0, FALSE).cells, result |-> FALSE]

\* faulty variant of restrict: result is set whether or not a cell was assigned
restrict_AlwaysProgress(cells) == [cells |-> RestrictFrom(cells, 0, FALSE).cells, result |-> TRUE]

restrict(cells) == RestrictFrom(cells, 0, FALSE)

isFilled(cells) == ~ \E i \in Cells : isEmpty(cells[i])

isSolvable(cells) == ~ \E i \in Cells : isInconsistent(cells[i])

\* fn_testUnique of isCorrect(): every insert of a member's number() is a new element
fn_testUnique(cells, nbs) ==
    \A k1, k2 \in DOMAIN nbs :
        k1 # k2 => number(cells[nbs[k1]]) # number(cells[nbs[k2]])

isCorrect(cells) ==
    \A index \in 0 .. (NCOUNT - 1) :
        /\ fn_testUnique(cells, m_neighbors["ROW"][index])
        /\ fn_testUnique(cells, m_neighbors["COL"][index])
        /\ fn_testUnique(cells, m_neighbors["BOX"][index])

\* the first loop of read(): how many tokens are read before one fails
RECURSIVE ReadCount(_, _)
ReadCount(s, k) ==
    IF k >= NCOUNT * NCOUNT THEN k
    ELSE IF k >= Len(s) \/ ~ TokenOk(s[k + 1]) THEN k
    ELSE ReadCount(s, k + 1)

\* the second loop of read() from cell i on
RECURSIVE ReadUpdate(_, _)
ReadUpdate(cells, i) ==
    IF i >= NCOUNT * NCOUNT THEN cells
    ELSE IF ~ isEmpty(cells[i]) THEN ReadUpdate(updatePossibilities(cells, i), i + 1)
    ELSE ReadUpdate(cells, i + 1)

\* faulty variant of read: the second loop also runs when a token failed
read_UpdateOnFailure(cells, s) ==
    LET k      == ReadCount(s, 0)
        parsed == [i \in Cells |-> IF i < k THEN ParseCell(s[i + 1]) ELSE cells[i]]
    IN  [cells |-> ReadUpdate(parsed, 0), ok |-> k >= NCOUNT * NCOUNT]

\* faulty variant of read: the second loop, over the Filled cells, is left out
read_NoUpdate(cells, s) ==
    LET k      == ReadCount(s, 0)
        parsed == [i \in Cells |-> IF i < k THEN ParseCell(s[i + 1]) ELSE cells[i]]
    IN  [cells |-> parsed, ok |-> k >= NCOUNT * NCOUNT]

\* read(): the grid it leaves and the value it returns
read(cells, s) ==
    LET k      == ReadCount(s, 0)
        parsed == [i \in Cells |-> IF i < k THEN ParseCell(s[i + 1]) ELSE cells[i]]
    IN  IF k < NCOUNT * NCOUNT
        THEN [cells |-> parsed, ok |-> FALSE]
        ELSE [cells |-> ReadUpdate(parsed, 0), ok |-> TRUE]

(* ------------------------------------------------------------------ *)
(* Input streams                                                       *)
(* ------------------------------------------------------------------ *)

\* a solved grid, the pattern ((row * SIZE + row / SIZE + col) mod NCOUNT) + 1
Base == [i \in Cells |->
            (((row(i, SIZE) * SIZE) + (row(i, SIZE) \div SIZE) + col(i, SIZE)) % NCOUNT) + 1]

Blank == [i \in Cells |-> 0]

SmallSets(S, k) == {T \in SUBSET S : Cardinality(T) <= k}

\* the grids that hold f on T and g elsewhere, f ranging over the values V
Overwrites(g, T, V) == {[i \in Cells |-> IF i \in T THEN f[i] ELSE g[i]] : f \in [T -> V]}

DenseInputs == UNION {Overwrites(Base, T, 0 .. NCOUNT) : T \in SmallSets(Cells, MaxHoles)}

SparseRegion == 0 .. NCOUNT

SparseInputs == UNION {Overwrites(Blank, T, Digits) : T \in SmallSets(SparseRegion, MaxGivens)}

ClueRegion == {i \in Cells : (row(i, SIZE) + col(i, SIZE)) % 2 = 0}

ClueInputs ==
    {[i \in Cells |-> IF i \in T THEN Base[i] ELSE 0] : T \in SmallSets(ClueRegion, MaxClues)}

GoodGrids == DenseInputs \cup SparseInputs \cup ClueInputs

AsStream(g) == [k \in 1 .. (NCOUNT * NCOUNT) |-> g[k - 1]]

\* the positions at which a malformed stream fails: near its start and near its end
BadAt == (1 .. BadPrefix) \cup ((NCOUNT * NCOUNT - BadPrefix + 1) .. (NCOUNT * NCOUNT))

BadBases == {Base} \cup {g \in SparseInputs : Cardinality({i \in Cells : g[i] # 0}) <= 1}

\* a stream that ends before token p, or whose token p is out of range
BadStreams ==
    UNION {{SubSeq(AsStream(g), 1, p - 1), [AsStream(g) EXCEPT ![p] = NCOUNT + 1]} :
               g \in BadBases, p \in BadAt}

Streams == {AsStream(g) : g \in GoodGrids} \cup BadStreams

(* ------------------------------------------------------------------ *)
(* State                                                               *)
(* ------------------------------------------------------------------ *)

VARIABLES
    stream,     \* the tokens read() is given
    m_cells,    \* Solver::m_cells
    pc,         \* where the program stands
    stack,      \* the live assumeNumber() activations, innermost last
    result,     \* what the last finished solve() returned: "true", "false", or "none" before
    correct,    \* what isCorrect() returned: "true", "false", or "none" before the call
    sweeps,     \* restrict() calls so far
    assumes,    \* assumeNumber() calls so far
    nb          \* one evaluation of initNeighbors<TYPE>(): its template arguments and locals

vars == <<stream, m_cells, pc, stack, result, correct, sweeps, assumes, nb>>

\* the solver's own variables
solver == <<stream, m_cells, pc, stack, result, correct, sweeps, assumes>>

NoTable == [TYPE |-> "ROW", S |-> 0, i1 |-> 0, i2 |-> 0, result |-> << >>]

\* faulty variant of FirstEmpty: the search runs from the back
FirstEmpty_Last(cells) ==
    IF \A i \in Cells : cells[i].number # 0 THEN NCOUNT * NCOUNT
    ELSE CHOOSE i \in Cells : cells[i].number = 0 /\ \A j \in Cells : cells[j].number = 0 => j <= i

\* std::find_if(m_cells.begin(), m_cells.end(), isEmpty): NCOUNT * NCOUNT is end()
FirstEmpty(cells) ==
    IF isFilled(cells) THEN NCOUNT * NCOUNT
    ELSE CHOOSE i \in Cells : isEmpty(cells[i]) /\ \A j \in Cells : isEmpty(cells[j]) => i <= j

Top == stack[Len(stack)]

\* a returned bool, as result and correct record it
Returned(b) == IF b THEN "true" ELSE "false"

Init ==
    /\ stream \in Streams
    /\ m_cells = [i \in Cells |-> EmptyCell]
    /\ pc = "start"
    /\ stack = << >>
    /\ result = "none"
    /\ correct = "none"
    /\ sweeps = 0
    /\ assumes = 0
    /\ nb = NoTable

\* read(stream) of the freshly constructed solver
Read ==
    /\ pc = "start"
    /\ LET r == read(m_cells, stream)
       IN  /\ m_cells' = r.cells
           /\ pc' = IF r.ok THEN "ready" ELSE "readfail"
    /\ UNCHANGED <<stream, stack, result, correct, sweeps, assumes, nb>>

\* the caller's solve() after a successful read()
CallSolve ==
    /\ pc = "ready"
    /\ pc' = "solve"
    /\ UNCHANGED <<stream, m_cells, stack, result, correct, sweeps, assumes, nb>>

\* faulty variant of SolveCheck: isFilled() is not consulted while the grid is solvable
SolveCheck_NoFilledTest ==
    /\ pc = "solve"
    /\ IF ~ isSolvable(m_cells)
       THEN /\ result' = "false"
            /\ pc' = "ret"
       ELSE /\ result' = result
            /\ pc' = "restrict"
    /\ UNCHANGED <<stream, m_cells, stack, correct, sweeps, assumes, nb>>

\* faulty variant of SolveCheck: the loop tests isFilled() only
SolveCheck_NoSolvableTest ==
    /\ pc = "solve"
    /\ IF isFilled(m_cells)
       THEN /\ result' = Returned(isSolvable(m_cells))
            /\ pc' = "ret"
       ELSE /\ result' = result
            /\ pc' = "restrict"
    /\ UNCHANGED <<stream, m_cells, stack, correct, sweeps, assumes, nb>>

\* solve(), the head of the loop: isSolvable(), isFilled(), return or go on to restrict()
SolveCheck ==
    /\ pc = "solve"
    /\ LET solvable == isSolvable(m_cells)
       IN  IF isFilled(m_cells) \/ ~ solvable
           THEN /\ result' = Returned(solvable)
                /\ pc' = "ret"
           ELSE /\ result' = result
                /\ pc' = "restrict"
    /\ UNCHANGED <<stream, m_cells, stack, correct, sweeps, assumes, nb>>

\* solve(): if (!restrict()) return assumeNumber(); one whole sweep
Restrict ==
    /\ pc = "restrict"
    /\ LET r == restrict(m_cells)
       IN  /\ m_cells' = r.cells
           /\ pc' = IF r.result THEN "solve" ELSE "assume"
    /\ sweeps' = sweeps + 1
    /\ UNCHANGED <<stream, stack, result, correct, assumes, nb>>

\* assumeNumber(), up to its loop: the branching cell and its candidates
AssumeEnter ==
    /\ pc = "assume"
    /\ LET index == FirstEmpty(m_cells)
       IN  IF index = NCOUNT * NCOUNT
           THEN \* it == end(): it->possibilities() is undefined behaviour
                /\ pc' = "undefined"
                /\ stack' = stack
           ELSE /\ pc' = "try"
                /\ stack' = Append(stack, [index  |-> index,
                                           poss   |-> possibilities(m_cells[index]),
                                           tried  |-> 0,
                                           backup |-> m_cells,
                                           entry  |-> m_cells])
    /\ assumes' = assumes + 1
    /\ UNCHANGED <<stream, m_cells, result, correct, sweeps, nb>>

\* faulty variant of AssumeTry: the candidate is written through begin(m_cells), not through it
AssumeTry_Begin ==
    /\ pc = "try"
    /\ Top.tried < Len(Top.poss)
    /\ LET poss_number == Top.poss[Top.tried + 1]
       IN  m_cells' = updatePossibilities(
                          [m_cells EXCEPT ![0] = setNumber(@, poss_number)], Top.index)
    /\ stack' = [stack EXCEPT ![Len(stack)] = [@ EXCEPT !.tried = @ + 1, !.backup = m_cells]]
    /\ pc' = "solve"
    /\ UNCHANGED <<stream, result, correct, sweeps, assumes, nb>>

\* one iteration of assumeNumber()'s loop up to the recursive solve()
AssumeTry ==
    /\ pc = "try"
    /\ Top.tried < Len(Top.poss)
    /\ LET poss_number == Top.poss[Top.tried + 1]
       IN  m_cells' = updatePossibilities(
                          [m_cells EXCEPT ![Top.index] = setNumber(@, poss_number)], Top.index)
    /\ stack' = [stack EXCEPT ![Len(stack)] = [@ EXCEPT !.tried = @ + 1, !.backup = m_cells]]
    /\ pc' = "solve"
    /\ UNCHANGED <<stream, result, correct, sweeps, assumes, nb>>

\* assumeNumber(): the loop is over, return false (and solve() returns it)
AssumeExhausted ==
    /\ pc = "try"
    /\ Top.tried >= Len(Top.poss)
    /\ stack' = SubSeq(stack, 1, Len(stack) - 1)
    /\ result' = "false"
    /\ pc' = "ret"
    /\ UNCHANGED <<stream, m_cells, correct, sweeps, assumes, nb>>

\* faulty variant of AssumeSuccess: the backup is moved back before solve()'s value is tested
AssumeSuccess_Restores ==
    /\ pc = "ret"
    /\ stack # << >>
    /\ result = "true"
    /\ m_cells' = Top.backup
    /\ stack' = SubSeq(stack, 1, Len(stack) - 1)
    /\ UNCHANGED <<stream, pc, result, correct, sweeps, assumes, nb>>

\* assumeNumber(): if (solve()) return true; (and the enclosing solve() returns it)
AssumeSuccess ==
    /\ pc = "ret"
    /\ stack # << >>
    /\ result = "true"
    /\ stack' = SubSeq(stack, 1, Len(stack) - 1)
    /\ UNCHANGED <<stream, m_cells, pc, result, correct, sweeps, assumes, nb>>

\* faulty variant of AssumeWrong: the backup is not moved back
AssumeWrong_NoRestore ==
    /\ pc = "ret"
    /\ stack # << >>
    /\ result = "false"
    /\ pc' = "try"
    /\ UNCHANGED <<stream, m_cells, stack, result, correct, sweeps, assumes, nb>>

\* assumeNumber(): the recursive solve() failed: m_cells = move(backup), next candidate
AssumeWrong ==
    /\ pc = "ret"
    /\ stack # << >>
    /\ result = "false"
    /\ m_cells' = Top.backup
    /\ pc' = "try"
    /\ UNCHANGED <<stream, stack, result, correct, sweeps, assumes, nb>>

\* the outermost solve() returns to the caller
SolveDone ==
    /\ pc = "ret"
    /\ stack = << >>
    /\ pc' = "done"
    /\ UNCHANGED <<stream, m_cells, stack, result, correct, sweeps, assumes, nb>>

\* the caller's isCorrect(), after read() or after solve()
IsCorrect ==
    /\ pc \in {"ready", "done"}
    /\ correct' = Returned(isCorrect(m_cells))
    /\ pc' = "checked"
    /\ UNCHANGED <<stream, m_cells, stack, result, sweeps, assumes, nb>>

Next ==
    \/ Read
    \/ CallSolve
    \/ SolveCheck
    \/ Restrict
    \/ AssumeEnter
    \/ AssumeTry
    \/ AssumeExhausted
    \/ AssumeSuccess
    \/ AssumeWrong
    \/ SolveDone
    \/ IsCorrect

Spec == Init /\ [][Next]_vars

(* ------------------------------------------------------------------ *)
(* initNeighbors<TYPE>() run entry by entry                            *)
(* ------------------------------------------------------------------ *)

\* narray_t result{ 0 } for one kind and one box size, before the loops
TopoInit ==
    /\ stream = << >>
    /\ m_cells = [i \in Cells |-> EmptyCell]
    /\ pc = "topology"
    /\ stack = << >>
    /\ result = "none"
    /\ correct = "none"
    /\ sweeps = 0
    /\ assumes = 0
    /\ \E t \in NbType, S \in 1 .. MaxSize :
           nb = [TYPE |-> t, S |-> S, i1 |-> 0, i2 |-> 0,
                 result |-> [a \in 0 .. (S * S - 1) |-> [b \in 0 .. (S * S - 1) |-> 0]]]

\* one pass of the inner loop: result[i1][i2] = ..., ++i2 (and ++i1 at the end of a row)
NeighborStep ==
    /\ pc = "topology"
    /\ nb.i1 < nb.S * nb.S
    /\ LET last == nb.i2 + 1 = nb.S * nb.S
       IN  nb' = [nb EXCEPT
                     !.result[nb.i1][nb.i2] = NeighborEntry(nb.TYPE, nb.S, nb.i1, nb.i2),
                     !.i2 = IF last THEN 0 ELSE nb.i2 + 1,
                     !.i1 = IF last THEN nb.i1 + 1 ELSE nb.i1]
    /\ UNCHANGED solver

TopoNext == NeighborStep

TopoSpec == TopoInit /\ [][TopoNext]_vars

\* return result;
TableDone == pc = "topology" /\ nb.i1 = nb.S * nb.S

(* ------------------------------------------------------------------ *)
(* Vocabulary of the properties                                        *)
(* ------------------------------------------------------------------ *)

\* two different cells share a row, a column or a box of the NCOUNT x NCOUNT grid
SameUnit(i, j) ==
    /\ i # j
    /\ \/ i \div NCOUNT = j \div NCOUNT
       \/ i % NCOUNT = j % NCOUNT
       \/ /\ (i \div NCOUNT) \div SIZE = (j \div NCOUNT) \div SIZE
          /\ (i % NCOUNT) \div SIZE = (j % NCOUNT) \div SIZE

\* the cell states form a finished legal grid
Legal(cells) ==
    /\ \A i \in Cells : cells[i].number \in Digits
    /\ \A i, j \in Cells : SameUnit(i, j) => cells[i].number # cells[j].number

Empties(cells) == Cardinality({i \in Cells : cells[i].number = 0})

\* the rows a legal grid can have
RowPerms == {p \in [0 .. (NCOUNT - 1) -> Digits] : \A a, b \in DOMAIN p : a # b => p[a] # p[b]}

\* row q may follow the rows of the partial grid rows (a sequence of rows)
RowFits(rows, q) ==
    \A r \in DOMAIN rows : \A a, b \in 0 .. (NCOUNT - 1) :
        SameUnit((r - 1) * NCOUNT + a, Len(rows) * NCOUNT + b) => rows[r][a] # q[b]

RECURSIVE LegalRows(_)
LegalRows(n) ==
    IF n = 0 THEN {<< >>}
    ELSE UNION {{Append(rows, q) : q \in {x \in RowPerms : RowFits(rows, x)}} :
                    rows \in LegalRows(n - 1)}

\* every full legal grid, as a map from cell index to digit
Solutions ==
    {[i \in Cells |-> rows[(i \div NCOUNT) + 1][i % NCOUNT]] : rows \in LegalRows(NCOUNT)}

\* the grid a well-formed stream describes
InputGrid == [i \in Cells |-> stream[i + 1]]

WellFormed == Len(stream) = NCOUNT * NCOUNT /\ \A k \in DOMAIN stream : stream[k] \in 0 .. NCOUNT

\* the valid completions of the input: full legal grids that extend its givens
Completions == {g \in Solutions : \A i \in Cells : InputGrid[i] # 0 => g[i] = InputGrid[i]}

AfterSolve == pc \in {"done", "checked"} /\ result # "none"

(* ------------------------------------------------------------------ *)
(* Properties                                                          *)
(* ------------------------------------------------------------------ *)

\* C1: an input with exactly one valid completion makes solve() return true, leaves that
\* completion in the grid, and isCorrect() then returns true
C1_UniqueSolved ==
    (AfterSolve /\ Cardinality(Completions) = 1) =>
        /\ result = "true"
        /\ \A g \in Completions : \A i \in Cells : m_cells[i].number = g[i]
        /\ pc = "checked" => correct = "true"

\* C1 witness: a unique puzzle with Empty cells was solved by sweeps and passed isCorrect()
C1_Witness ==
    /\ pc = "checked"
    /\ result = "true"
    /\ correct = "true"
    /\ sweeps >= 2
    /\ Cardinality(Completions) = 1

\* C2: whenever solve() returns true the grid is completely Filled and every row, column
\* and box holds pairwise-distinct digits
C2_SolvedIsLegal == (AfterSolve /\ result = "true") => Legal(m_cells)

\* C3: an input with no valid completion (in particular one with a digit given twice in a
\* row) makes solve() return false
C3_NoCompletionFails == (AfterSolve /\ Completions = {}) => result = "false"

\* C4: isCorrect() returns true exactly when every cell is Filled and every row, column and
\* box holds pairwise-distinct digits
C4_CorrectIffLegal == pc = "checked" => (correct = "true" <=> Legal(m_cells))

\* the position of the innermost solve() or assumeNumber() in its own code, as a number
\* that every step of that call lowers
LocalRank ==
    CASE pc = "start"    -> NCOUNT + 4 + 3 * (NCOUNT * NCOUNT) + 4
      [] pc = "ready"    -> NCOUNT + 4 + 3 * (NCOUNT * NCOUNT) + 3
      [] pc = "solve"    -> NCOUNT + 4 + 3 * Empties(m_cells) + 2
      [] pc = "restrict" -> NCOUNT + 4 + 3 * Empties(m_cells) + 1
      [] pc = "assume"   -> NCOUNT + 4 + 3 * Empties(m_cells)
      [] pc = "ret"      -> 2
      [] pc = "done"     -> 1
      [] OTHER           -> 0

\* the rank of a state: per activation of assumeNumber() its untried candidates, outermost
\* first, then the local rank; ranks are compared lexicographically
Rank ==
    [k \in 1 .. (Len(stack) + 1) |->
        IF k <= Len(stack) THEN 3 + Len(stack[k].poss) - stack[k].tried ELSE LocalRank]

LexLess(a, b) ==
    \E k \in DOMAIN a \cap DOMAIN b :
        /\ a[k] < b[k]
        /\ \A j \in 1 .. (k - 1) : a[j] = b[j]

\* C5: solve() terminates: every step lowers a rank drawn from a finite ordered set; a sweep
\* that reports progress and an assumption both leave fewer Empty cells, and the recursion
\* is never deeper than the input has Empty cells
C5_Terminates ==
    /\ [][LexLess(Rank', Rank)]_vars
    /\ [](Len(stack) <= NCOUNT * NCOUNT /\ \A k \in DOMAIN Rank : Rank[k] \in 0 .. (4 * NCOUNT * NCOUNT))
    /\ [][(pc = "restrict" /\ pc' = "solve") => Empties(m_cells') < Empties(m_cells)]_vars
    /\ [][(pc = "try" /\ pc' = "solve") => Empties(m_cells') < Empties(m_cells)]_vars
    /\ [](WellFormed => Len(stack) <= Empties([i \in Cells |-> [number |-> InputGrid[i]]]))
    /\ [](pc # "undefined")

\* C5 witness: a solve() that went three assumptions deep has returned
C5_Witness == pc = "done" /\ assumes >= 3 /\ sweeps >= 5

\* C6: a finished table holds, per group, NCOUNT distinct cells; its groups partition the
\* grid; a ROW, COL or BOX group g holds the cells of row g, of column g, or of the box at
\* box-row g / N and box-column g % N; cell i lies in the group that row(i), col(i) or box(i)
\* selects; for N = 3 ROW group 0 is 0..8 and BOX group 0 is {0,1,2,9,10,11,18,19,20}
C6_Topology ==
    TableDone =>
        LET S  == nb.S
            N  == S * S
            T  == nb.result
            G  == 0 .. (N - 1)
            All == 0 .. (N * N - 1)
            sel(i) == CASE nb.TYPE = "ROW" -> row(i, S)
                        [] nb.TYPE = "COL" -> col(i, S)
                        [] OTHER           -> box(i, S)
        IN  /\ T = initNeighbors(nb.TYPE, S)
            /\ \A g \in G : \A k1, k2 \in G : k1 # k2 => T[g][k1] # T[g][k2]
            /\ UNION {Members(T[g]) : g \in G} = All
            /\ \A g1, g2 \in G : g1 # g2 => Members(T[g1]) \cap Members(T[g2]) = {}
            /\ \A g \in G :
                   Members(T[g]) =
                       CASE nb.TYPE = "ROW" -> {i \in All : i \div N = g}
                         [] nb.TYPE = "COL" -> {i \in All : i % N = g}
                         [] OTHER           -> {i \in All : /\ (i \div N) \div S = g \div S
                                                           /\ (i % N) \div S = g % S}
            /\ \A i \in All : sel(i) \in G /\ i \in Members(T[sel(i)])
            /\ (S = 3 /\ nb.TYPE = "ROW") => Members(T[0]) = 0 .. 8
            /\ (S = 3 /\ nb.TYPE = "BOX") => Members(T[0]) = {0, 1, 2, 9, 10, 11, 18, 19, 20}

\* C6 witness: the BOX table for N = 3 is finished
C6_Witness == TableDone /\ nb.S = 3 /\ nb.TYPE = "BOX" /\ nb.result[8][8] = 80

\* C7: a grid without Empty cell returns true, and a grid with a contradictory cell returns
\* false, at once and untouched; restrict() runs only on an unfinished solvable grid and
\* assumeNumber() only once a sweep of that grid reports no progress
C7_SolveOrder ==
    /\ [][(pc = "solve" /\ isFilled(m_cells)) =>
              (pc' = "ret" /\ result' = "true" /\ UNCHANGED <<m_cells, sweeps, assumes, stack>>)]_vars
    /\ [][(pc = "solve" /\ ~ isSolvable(m_cells)) =>
              (pc' = "ret" /\ result' = "false" /\ UNCHANGED <<m_cells, sweeps, assumes, stack>>)]_vars
    /\ [][(sweeps' # sweeps) => (~ isFilled(m_cells) /\ isSolvable(m_cells))]_vars
    /\ [][(assumes' # assumes) =>
              (/\ ~ isFilled(m_cells)
               /\ isSolvable(m_cells)
               /\ sweeps > 0
               /\ restrict(m_cells) = [cells |-> m_cells, result |-> FALSE])]_vars
    /\ []((pc = "done" /\ \A k \in DOMAIN stream : stream[k] # 0) =>
              (result = "true" /\ sweeps = 0 /\ assumes = 0))

\* C7 witness: each of the three outcomes has happened in one run: a sweep, then an
\* assumption, then an immediate false and, in the end, a true
C7_Witness == pc = "done" /\ result = "true" /\ sweeps > 0 /\ assumes > 0

\* C8: read() fails exactly on a malformed stream; it then leaves the cells before the
\* failing token as parsed, the others as constructed, and eliminates no candidate
C8_ReadFailure ==
    LET bad == {k \in 1 .. (NCOUNT * NCOUNT) : k > Len(stream) \/ stream[k] \notin 0 .. NCOUNT}
    IN  /\ pc = "readfail" <=> (pc # "start" /\ pc # "topology" /\ bad # {})
        /\ pc = "readfail" =>
               \A i \in Cells :
                   IF \A k \in bad : i + 1 < k
                   THEN m_cells[i] = ParseCell(stream[i + 1])
                   ELSE m_cells[i] = EmptyCell

\* C8 witness: a stream whose last token is rejected, after fifteen given digits
C8_Witness ==
    /\ pc = "readfail"
    /\ Len(stream) = NCOUNT * NCOUNT
    /\ \A k \in 1 .. (NCOUNT * NCOUNT - 1) : stream[k] \in Digits

\* C9: whenever assumeNumber() is about to try a candidate or to give up, the grid is the
\* one it was entered with
C9_Restored ==
    /\ [](pc = "try" => m_cells = Top.entry)
    /\ [][(pc = "ret" /\ pc' = "try") => m_cells' = Top.backup /\ Top.backup = Top.entry]_vars
    /\ [][(pc = "try" /\ pc' = "ret") => m_cells' = Top.entry]_vars

\* C9 witness: an assumption has failed, at the second level of the recursion
C9_Witness == pc = "try" /\ Len(stack) >= 2 /\ Top.tried >= 1 /\ m_cells = Top.entry

\* C10: every activation of assumeNumber() branches on the first Empty cell of the grid it
\* was entered with, holds that cell's candidates in ascending order and has assigned the
\* one it is trying; once a solve() has returned true nothing changes any more
C10_FirstCellAscending ==
    /\ [](\A k \in DOMAIN stack :
              LET f == stack[k]
              IN  /\ f.index \in Cells
                  /\ isEmpty(f.entry[f.index])
                  /\ \A j \in Cells : j < f.index => ~ isEmpty(f.entry[j])
                  /\ {f.poss[a] : a \in DOMAIN f.poss} = f.entry[f.index].poss
                  /\ \A a, b \in DOMAIN f.poss : a < b => f.poss[a] < f.poss[b]
                  /\ (k < Len(stack) \/ pc # "try") =>
                         (f.tried >= 1 /\ m_cells[f.index].number = f.poss[f.tried]))
    /\ [][\A k \in DOMAIN stack : k \in DOMAIN stack' =>
              stack'[k].tried \in {stack[k].tried, stack[k].tried + 1}]_vars
    /\ [][(pc = "ret" /\ result = "true") =>
              (/\ pc' \in {"ret", "done"}
               /\ Len(stack') < Len(stack) \/ stack' = stack
               /\ UNCHANGED <<m_cells, result, sweeps, assumes>>)]_vars
    /\ [][(pc \in {"done", "checked"}) => UNCHANGED <<m_cells, result, sweeps, assumes>>]_vars

\* C10 witness: a true is travelling up through an activation that had a failed candidate
C10_Witness == pc = "ret" /\ result = "true" /\ Len(stack) >= 2 /\ Top.tried >= 2

\* the grid after the first k assignments of a trace have been made on cells
RECURSIVE Replay(_, _, _)
Replay(cells, trace, k) ==
    IF k = 0 THEN cells
    ELSE LET c == Replay(cells, trace, k - 1)
             a == trace[k]
         IN  [j \in Cells |->
                 IF j = a.cell THEN [number |-> a.digit, poss |-> {}]
                 ELSE IF SameUnit(j, a.cell) /\ c[j].number = 0
                      THEN [c[j] EXCEPT !.poss = @ \ {a.digit}]
                      ELSE c[j]]

\* the cells of one row, column or box
Units ==
    {{i \in Cells : i \div NCOUNT = g} : g \in 0 .. (NCOUNT - 1)} \cup
    {{i \in Cells : i % NCOUNT = g} : g \in 0 .. (NCOUNT - 1)} \cup
    {{i \in Cells : (i \div NCOUNT) \div SIZE = g \div SIZE /\ (i % NCOUNT) \div SIZE = g % SIZE} :
         g \in 0 .. (NCOUNT - 1)}

\* the assignment of digit d to cell i is a naked or a hidden single of the grid cells
Justified(cells, i, d) ==
    /\ cells[i].number = 0
    /\ d \in cells[i].poss
    /\ \A j \in Cells : SameUnit(i, j) => cells[j].number # d
    /\ \/ cells[i].poss = {d}
       \/ \E U \in Units :
              /\ i \in U
              /\ \A j \in U \ {i} : cells[j].number = 0 => d \notin cells[j].poss

\* C11: every assignment of a sweep is a naked or hidden single of the grid as it stands
\* when the assignment is made, earlier assignments of the sweep included; the sweep
\* assigns each cell at most once, and its assignments make up its whole effect
C11_SweepJustified ==
    pc = "restrict" =>
        LET trace == RestrictTrace(m_cells, 0)
        IN  /\ \A k \in DOMAIN trace :
                   /\ trace[k].before = Replay(m_cells, trace, k - 1)
                   /\ Justified(trace[k].before, trace[k].cell, trace[k].digit)
            /\ \A a, b \in DOMAIN trace : a < b => trace[a].cell < trace[b].cell
            /\ restrict(m_cells).cells = Replay(m_cells, trace, Len(trace))

\* C11 witness: a sweep makes three assignments, the last a hidden single that was none
\* when the sweep began
C11_Witness ==
    /\ pc = "restrict"
    /\ LET trace == RestrictTrace(m_cells, 0)
       IN  /\ Len(trace) >= 3
           /\ \E k \in DOMAIN trace :
                  /\ k > 1
                  /\ Cardinality(trace[k].before[trace[k].cell].poss) > 1
                  /\ ~ Justified(m_cells, trace[k].cell, trace[k].digit)

\* C12: a sweep returns true exactly when it assigned a cell, which is exactly when it
\* changed the grid; after a sweep that returned false the grid is as before and one more
\* sweep of it returns false and changes nothing
C12_SweepResult ==
    [][pc = "restrict" =>
           /\ pc' \in {"solve", "assume"}
           /\ pc' = "solve" <=> RestrictTrace(m_cells, 0) # << >>
           /\ pc' = "solve" <=> Empties(m_cells') < Empties(m_cells)
           /\ pc' = "solve" <=> m_cells' # m_cells
           /\ pc' = "assume" => restrict(m_cells') = [cells |-> m_cells, result |-> FALSE]]_vars

\* C12 witness: a sweep has just returned false, after earlier sweeps that made progress
C12_Witness ==
    /\ pc = "assume"
    /\ sweeps >= 3
    /\ Empties(m_cells) > 0
    /\ ~ restrict(m_cells).result

\* post is pre with the digit of the Filled cell index struck from the candidates of the
\* Empty cells of its row, column and box, and nothing else changed
OnlyPeersLose(pre, index, post) ==
    \A j \in Cells :
        post[j] = IF SameUnit(j, index) /\ pre[j].number = 0
                  THEN [pre[j] EXCEPT !.poss = @ \ {pre[index].number}]
                  ELSE pre[j]

\* the grids on which solve() is about to call updatePossibilities(index), each with its
\* index: the next candidate of assumeNumber() assigned, and each assignment of the sweep
\* about to run
UpdateCalls ==
    (IF pc = "try"
     THEN {[pre |-> [m_cells EXCEPT ![Top.index] = setNumber(@, Top.poss[k])], index |-> Top.index] :
               k \in (Top.tried + 1) .. Len(Top.poss)}
     ELSE {}) \cup
    (IF pc = "restrict"
     THEN LET trace == RestrictTrace(m_cells, 0)
          IN  {[pre   |-> [trace[k].before EXCEPT ![trace[k].cell] = setNumber(@, trace[k].digit)],
                index |-> trace[k].cell] : k \in DOMAIN trace}
     ELSE {})

\* C13: updatePossibilities(index) strikes the digit of cell index from the candidates of
\* the Empty cells of its row, column and box and changes nothing else
C13_UpdateFrame ==
    \A c \in UpdateCalls : OnlyPeersLose(c.pre, c.index, updatePossibilities(c.pre, c.index))

\* C13 witness: a call strikes the digit from a peer in each of the three groups, next to
\* Filled peers and to Empty cells outside the groups that list the digit
C13_Witness ==
    \E c \in UpdateCalls :
        LET d    == c.pre[c.index].number
            post == updatePossibilities(c.pre, c.index)
            lost == {j \in Cells : d \in c.pre[j].poss /\ d \notin post[j].poss}
        IN  /\ \E j \in lost : j \div NCOUNT = c.index \div NCOUNT
            /\ \E j \in lost : j % NCOUNT = c.index % NCOUNT
            /\ \E j \in lost : j \div NCOUNT # c.index \div NCOUNT /\ j % NCOUNT # c.index % NCOUNT
            /\ \E j \in Cells : SameUnit(j, c.index) /\ c.pre[j].number # 0
            /\ \E j \in Cells : j # c.index /\ ~ SameUnit(j, c.index) /\ d \in c.pre[j].poss

\* no cell of the grid after lists a candidate it did not list in the grid before
Shrinks(pre, post) == \A i \in Cells : post[i].poss \subseteq pre[i].poss

\* C14: every step but the restoration in assumeNumber() leaves each candidate set a subset
\* of what it was, assignment by assignment inside a sweep too; the restoration puts back
\* the whole grid its activation was entered with
C14_CandidatesShrink ==
    /\ [][~ (pc = "ret" /\ pc' = "try") => Shrinks(m_cells, m_cells')]_vars
    /\ [][pc = "restrict" =>
              LET trace == RestrictTrace(m_cells, 0)
              IN  /\ \A k \in DOMAIN trace : k > 1 => Shrinks(trace[k - 1].before, trace[k].before)
                  /\ trace # << >> =>
                         (Shrinks(m_cells, trace[1].before) /\ Shrinks(trace[Len(trace)].before, m_cells'))]_vars
    /\ [][(pc = "ret" /\ pc' = "try") => (m_cells' = Top.entry /\ ~ Shrinks(m_cells, m_cells'))]_vars

\* C14 witness: a restoration is about to bring back candidates, and Empty cells
C14_Witness ==
    /\ pc = "ret"
    /\ result = "false"
    /\ Len(stack) >= 2
    /\ \E i \in Cells : m_cells[i].number = 0 /\ ~ (Top.backup[i].poss \subseteq m_cells[i].poss)
    /\ Empties(Top.backup) > Empties(m_cells) + 1

\* the stream has been read into the grid
Loaded == pc \notin {"start", "readfail", "topology"}

\* C15: a Filled cell keeps its digit in every step, except that the restoration in
\* assumeNumber() may return a cell the solver filled to Empty; a given holds its input
\* digit in every state from read() on; a sweep assigns Empty cells only
C15_DigitsStable ==
    /\ [][\A i \in Cells :
              m_cells[i].number # 0 =>
                  \/ m_cells'[i].number = m_cells[i].number
                  \/ /\ pc = "ret" /\ pc' = "try"
                     /\ m_cells'[i].number = 0
                     /\ InputGrid[i] = 0]_vars
    /\ [](Loaded => \A i \in Cells : InputGrid[i] # 0 => m_cells[i].number = InputGrid[i])
    /\ [](pc = "restrict" =>
              LET trace == RestrictTrace(m_cells, 0)
              IN  \A k \in DOMAIN trace :
                      /\ trace[k].before[trace[k].cell].number = 0
                      /\ \A i \in Cells : m_cells[i].number # 0 =>
                             trace[k].before[i].number = m_cells[i].number)

\* C15 witness: a restoration has just emptied a cell the solver had filled, next to givens
\* and to cells an earlier sweep or assumption filled, which all kept their digits
C15_Witness ==
    /\ pc = "try"
    /\ Top.tried >= 1
    /\ Len(stack) >= 2
    /\ Empties(m_cells) > 1
    /\ m_cells = Top.entry
    /\ \E i \in Cells : InputGrid[i] # 0 /\ m_cells[i].number = InputGrid[i]
    /\ \E j \in Cells : InputGrid[j] = 0 /\ m_cells[j].number # 0

\* the digits the Filled cells of i's row, column and box hold
PeerDigits(cells, i) == {cells[j].number : j \in {p \in Cells : SameUnit(p, i) /\ cells[p].number # 0}}

\* every Empty cell lists exactly the digits no Filled cell of its groups holds
Exact(cells) == \A i \in Cells : cells[i].number = 0 => cells[i].poss = Digits \ PeerDigits(cells, i)

\* C16: from a successful read() on, after every assignment with its updatePossibilities
\* (those inside a sweep too) and after every restoration, the candidates of each Empty
\* cell are 1..NCOUNT less the digits of the Filled cells of its row, column and box
C16_CandidatesExact ==
    /\ Loaded => Exact(m_cells)
    /\ pc = "restrict" =>
           LET trace == RestrictTrace(m_cells, 0)
           IN  \A k \in DOMAIN trace : Exact(Replay(m_cells, trace, k))
    /\ pc = "try" => \A c \in UpdateCalls : Exact(updatePossibilities(c.pre, c.index))

\* C16 witness: a restoration has happened, and Empty cells list some digits but not all,
\* with different lists
C16_Witness ==
    /\ pc = "try"
    /\ Top.tried >= 1
    /\ sweeps >= 1
    /\ \E i, j \in Cells :
           /\ m_cells[i].number = 0 /\ m_cells[j].number = 0
           /\ m_cells[i].poss # m_cells[j].poss
           /\ Cardinality(m_cells[i].poss) \in 1 .. (NCOUNT - 1)
           /\ Cardinality(m_cells[j].poss) \in 1 .. (NCOUNT - 1)

\* a full grid agrees with the Filled cells of a grid
Agrees(g, cells) == \A i \in Cells : cells[i].number # 0 => g[i] = cells[i].number

\* the valid completions of a grid: the full legal grids that agree with its Filled cells
GridCompletions(cells) == {g \in Solutions : Agrees(g, cells)}

\* C17: a sweep of restrict() keeps every valid completion of the grid it starts from,
\* after each of its assignments and at its end; and solve() returns true for every
\* input that has a valid completion, one or many
C17_SweepKeepsSolutions ==
    /\ [][pc = "restrict" => \A g \in GridCompletions(m_cells) : Agrees(g, m_cells')]_vars
    /\ [](pc = "restrict" =>
              LET trace == RestrictTrace(m_cells, 0)
              IN  \A g \in GridCompletions(m_cells) :
                      \A k \in DOMAIN trace : g[trace[k].cell] = trace[k].digit)
    /\ []((AfterSolve /\ Completions # {}) => result = "true")

\* C17 witness: a sweep is about to assign cells of a grid that has several valid
\* completions, reached through an assumption on an input that has several too
C17_Witness ==
    /\ pc = "restrict"
    /\ assumes >= 1
    /\ RestrictTrace(m_cells, 0) # << >>
    /\ Cardinality(GridCompletions(m_cells)) >= 2
    /\ Cardinality(Completions) > Cardinality(GridCompletions(m_cells))

\* C18: assumeNumber() is entered only on a grid with an Empty cell and with no Empty cell
\* out of candidates; its search finds a cell of the grid, never the past-the-end position,
\* and the cell it branches on has a candidate to try, in every activation
C18_AssumeEntry ==
    /\ pc = "assume" =>
           /\ ~ isFilled(m_cells)
           /\ isSolvable(m_cells)
           /\ FirstEmpty(m_cells) \in Cells
           /\ isEmpty(m_cells[FirstEmpty(m_cells)])
           /\ Len(possibilities(m_cells[FirstEmpty(m_cells)])) >= 1
    /\ pc # "undefined"
    /\ \A k \in DOMAIN stack :
           /\ stack[k].index \in Cells
           /\ isEmpty(stack[k].entry[stack[k].index])
           /\ Len(stack[k].poss) >= 1
           /\ ~ isFilled(stack[k].entry)
           /\ isSolvable(stack[k].entry)

\* C18 witness: assumeNumber() is entered inside another activation, on a grid with Filled
\* cells before its first Empty cell, which has several candidates
C18_Witness ==
    /\ pc = "assume"
    /\ Len(stack) >= 1
    /\ FirstEmpty(m_cells) > 0
    /\ Empties(m_cells) >= 2
    /\ Len(possibilities(m_cells[FirstEmpty(m_cells)])) >= 2

====
